---------------------------- MODULE Spec2Model ----------------------------
(***************************************************************************)
(* Nalu DataProbePostProcessing (src/src/DataProbePostProcessing.C).       *)
(*                                                                         *)
(* One DataProbePostProcessing object lives on every rank of the parallel  *)
(* run.  Each rank constructs it from the same YAML document (the          *)
(* constructor calls load()), then the realm calls setup(), initialize()   *)
(* and, once per time step, execute().  The ranks share no memory: every   *)
(* per-rank quantity is a function over Ranks.                             *)
(*                                                                         *)
(* Doubles are modelled as exact rationals <<num, den>>: rounding,         *)
(* overflow and NaN are outside the model.                                 *)
(***************************************************************************)
EXTENDS Integers, Sequences, FiniteSets, TLC

VARIABLES
    y_node,              \* the YAML document handed to the constructor (same on all ranks)
    numProcs,            \* NaluEnv::self().parallel_size()
    nDim,                \* metaData.spatial_dimension()
    pc,                  \* pc[r]: lifecycle position of rank r's object
    outputFreq_,         \* outputFreq_[r]
    dataProbeSpecInfo_,  \* dataProbeSpecInfo_[r]: the registry of DataProbeSpecInfo
    allTheParts_,        \* allTheParts_[r]: parts pushed by create_inactive_selector
    metaData,            \* metaData[r]: parts and field restrictions declared on rank r
    bulkData,            \* bulkData[r]: entities, coordinates, collective-call log, id counter
    timeStepCount,       \* realm_.get_time_step_count() (time stepping is in lockstep)
    lastCall,            \* lastCall[r]: what execute() did on rank r in the current step
    thrown               \* thrown[r]: the message of the exception that ended the constructor

vars == <<y_node, numProcs, nDim, pc, outputFreq_, dataProbeSpecInfo_, allTheParts_,
          metaData, bulkData, timeStepCount, lastCall, thrown>>

-----------------------------------------------------------------------------
(* Bounds of the explored inputs.                                          *)

MaxRanks == 3

MaxSpecs == 2

MaxProbes == 3

MaxPoints == 3

MaxSteps == 20

Ranks == 0 .. (numProcs - 1)

-----------------------------------------------------------------------------
(* Exact rational arithmetic standing for the program's double arithmetic. *)

Abs(n) == IF n < 0 THEN -n ELSE n

RECURSIVE Gcd(_, _)
Gcd(a, b) == IF b = 0 THEN a ELSE Gcd(b, a % b)

Rat(n, d) ==
    LET s == IF d < 0 THEN -1 ELSE 1
        g == Gcd(Abs(n), Abs(d))
    IN  <<(s * n) \div g, (s * d) \div g>>

RatOfInt(n) == <<n, 1>>

RatAdd(p, q) == Rat(p[1] * q[2] + q[1] * p[2], p[2] * q[2])

RatSub(p, q) == Rat(p[1] * q[2] - q[1] * p[2], p[2] * q[2])

RatMul(p, q) == Rat(p[1] * q[1], p[2] * q[2])

RatDiv(p, q) == Rat(p[1] * q[2], p[2] * q[1])


-----------------------------------------------------------------------------
(* The YAML document.  A key of a mapping is a record [present, value]; a  *)
(* sequence-valued key is a record [present, items].                        *)

Key(isPresent, v) == [present |-> isPresent, value |-> v]

SeqKey(isPresent, s) == [present |-> isPresent, items |-> s]

\* Sample endpoints for tip_coordinates / tail_coordinates (x, y, z).
Points == {<<0, 0, 0>>, <<0, 0, 1>>, <<1, -2, 3>>}

LosDefects ==
    {"los_name", "los_number_of_points", "los_tip_coordinates", "los_tail_coordinates"}

SpecDefects == {"spec_name", "no_los", "empty_los", "field_name", "field_size"}

NoDefect == [kind |-> "none", ispec |-> 0, ilos |-> 0]

\* Shapes of the documents explored: how many specifications, how many
\* line-of-site entries the first one has (later ones have one), the geometry
\* of the first entry, and at most one missing or empty key.  Every
\* specification has "from_target_part" and a non-empty "output_variables";
\* every number_of_points is at least 2.
Shapes ==
    \* well-formed, varying the number of specifications and probes
    { [nSpecs |-> n, numProbes |-> m, numPoints |-> 2, tail |-> <<0, 0, 0>>,
       tip |-> <<0, 0, 1>>, defect |-> NoDefect] :
          n \in 1 .. MaxSpecs, m \in 1 .. MaxProbes }
    \cup
    \* well-formed, one probe, varying its geometry
    { [nSpecs |-> 1, numProbes |-> 1, numPoints |-> p, tail |-> a, tip |-> t,
       defect |-> NoDefect] :
          p \in 2 .. MaxPoints, a \in Points, t \in Points }
    \cup
    \* no "data_probes" section, "specifications" absent or empty
    { [nSpecs |-> 1, numProbes |-> 1, numPoints |-> 2, tail |-> <<0, 0, 0>>,
       tip |-> <<0, 0, 1>>, defect |-> [kind |-> d, ispec |-> 0, ilos |-> 0]] :
          d \in {"no_data_probes", "no_specifications", "empty_specifications"} }
    \cup
    \* one key missing in specification ispec
    { [nSpecs |-> n, numProbes |-> m, numPoints |-> 2, tail |-> <<0, 0, 0>>,
       tip |-> <<0, 0, 1>>, defect |-> [kind |-> d, ispec |-> k, ilos |-> 0]] :
          n \in 1 .. MaxSpecs, m \in {1, MaxProbes}, k \in 1 .. MaxSpecs, d \in SpecDefects }
    \cup
    \* one key missing in line-of-site entry ilos of specification 1
    { [nSpecs |-> n, numProbes |-> m, numPoints |-> 2, tail |-> <<0, 0, 0>>,
       tip |-> <<0, 0, 1>>, defect |-> [kind |-> d, ispec |-> 1, ilos |-> i]] :
          n \in 1 .. MaxSpecs, m \in 1 .. MaxProbes, i \in 1 .. MaxProbes, d \in LosDefects }
    \cup
    \* one key missing in the only line-of-site entry of a later specification
    { [nSpecs |-> n, numProbes |-> 1, numPoints |-> 2, tail |-> <<0, 0, 0>>,
       tip |-> <<0, 0, 1>>, defect |-> [kind |-> d, ispec |-> k, ilos |-> 1]] :
          n \in 2 .. MaxSpecs, k \in 2 .. MaxSpecs, d \in LosDefects }

ProbeName(ispec, ilos) == "probe_" \o ToString(ispec) \o "_" \o ToString(ilos)

LosNode(shape, ispec, ilos) ==
    LET first == (ispec = 1 /\ ilos = 1)
        hit(kind) == shape.defect.kind = kind /\ shape.defect.ispec = ispec
                     /\ shape.defect.ilos = ilos
    IN  [name |-> Key(~hit("los_name"), ProbeName(ispec, ilos)),
         number_of_points |->
             Key(~hit("los_number_of_points"),
                 IF first THEN shape.numPoints ELSE 2 + ((ispec + ilos) % (MaxPoints - 1))),
         tip_coordinates |->
             Key(~hit("los_tip_coordinates"),
                 IF first THEN shape.tip ELSE <<ilos, ispec, 2 * ilos>>),
         tail_coordinates |->
             Key(~hit("los_tail_coordinates"),
                 IF first THEN shape.tail ELSE <<ispec, -ilos, 0>>)]

OutputNodes(shape, ispec) ==
    LET hit(kind) == shape.defect.kind = kind /\ shape.defect.ispec = ispec
        velocity == [field_name |-> Key(TRUE, "velocity"), field_size |-> Key(TRUE, 2)]
        pressure == [field_name |-> Key(~hit("field_name"), "pressure"),
                     field_size |-> Key(~hit("field_size"), 1)]
    IN  IF ispec = 1 THEN <<velocity, pressure>> ELSE <<pressure>>

SpecNode(shape, ispec) ==
    LET hit(kind) == shape.defect.kind = kind /\ shape.defect.ispec = ispec
        m == IF ispec = 1 THEN shape.numProbes ELSE 1
    IN  [name |-> Key(~hit("spec_name"), "xfer_" \o ToString(ispec)),
         from_target_part |->
             IF ispec = 1
             THEN [isScalar |-> TRUE, names |-> <<"block_1">>]
             ELSE [isScalar |-> FALSE, names |-> <<"block_1", "block_2">>],
         line_of_site_specifications |->
             SeqKey(~hit("no_los"),
                    IF hit("no_los") \/ hit("empty_los") THEN <<>>
                    ELSE [ilos \in 1 .. m |-> LosNode(shape, ispec, ilos)]),
         output_variables |-> SeqKey(TRUE, OutputNodes(shape, ispec))]

Document(shape) ==
    LET kind == shape.defect.kind
    IN  [data_probes |->
            [present |-> kind # "no_data_probes",
             specifications |->
                 SeqKey(kind \notin {"no_data_probes", "no_specifications"},
                        IF kind \in {"no_data_probes", "no_specifications",
                                     "empty_specifications"}
                        THEN <<>>
                        ELSE [ispec \in 1 .. shape.nSpecs |-> SpecNode(shape, ispec)])]]

\* A defect must lie inside the document it is placed in.
WellPlaced(shape) ==
    /\ shape.defect.ispec <= shape.nSpecs
    /\ shape.defect.ilos <= (IF shape.defect.ispec = 1 THEN shape.numProbes ELSE 1)

Documents == {Document(shape) : shape \in {s \in Shapes : WellPlaced(s)}}

-----------------------------------------------------------------------------
(* load(): lines 69-205.                                                   *)

NullPart == ""

NoCoordinates == <<0, 0, 0>>

\* expect_sequence(node, key, optional) of NaluParsing: the sequence under a
\* key.  A required sequence that is absent or empty is a configuration
\* error; an optional one that is absent is NULL.
expect_sequence(node, optional) ==
    IF ~node.present
    THEN IF optional THEN "null" ELSE "throw"
    ELSE IF ~optional /\ Len(node.items) = 0 THEN "throw" ELSE "ok"

\* const int probePerProc = numProcs > numProbes ? 1 : numProbes / numProcs;
\* Variant: with more ranks than probes, one block holding every probe.
ProbePerProcFolded(nProcs, numProbes) ==
    IF nProcs > numProbes THEN numProbes ELSE numProbes \div nProcs

ProbePerProc(nProcs, numProbes) ==
    IF nProcs > numProbes THEN 1 ELSE numProbes \div nProcs

\* probeInfo->processorId_[ilos] = (ilos + probePerProc)/probePerProc - 1;  (ilos 0-based)
OwningRank(ilos, probePerProc) ==
    (ilos + probePerProc) \div probePerProc - 1

\* new DataProbeInfo()
NewDataProbeInfo ==
    [isLineOfSite_ |-> FALSE, numProbes_ |-> 0, partName_ |-> <<>>, processorId_ |-> <<>>,
     numPoints_ |-> <<>>, tipCoordinates_ |-> <<>>, tailCoordinates_ |-> <<>>,
     nodeVector_ |-> <<>>, part_ |-> <<>>, fieldInfo_ |-> <<>>]

\* new DataProbeSpecInfo(), with its DataProbeInfo pushed
NewDataProbeSpecInfo ==
    [xferName_ |-> "", fromTargetNames_ |-> <<>>, dataProbeInfo_ |-> <<NewDataProbeInfo>>]

\* lines 116-129: the l-o-s flag, numProbes_ and the resize of every array
ResizeProbeInfo(probeInfo, numProbes) ==
    [probeInfo EXCEPT
        !.isLineOfSite_ = TRUE,
        !.numProbes_ = numProbes,
        !.partName_ = [i \in 1 .. numProbes |-> ""],
        !.processorId_ = [i \in 1 .. numProbes |-> 0],
        !.numPoints_ = [i \in 1 .. numProbes |-> 0],
        !.tipCoordinates_ = [i \in 1 .. numProbes |-> NoCoordinates],
        !.tailCoordinates_ = [i \in 1 .. numProbes |-> NoCoordinates],
        !.nodeVector_ = [i \in 1 .. numProbes |-> <<>>],
        !.part_ = [i \in 1 .. numProbes |-> NullPart]]

Thrown(msg, v) == [what |-> msg, value |-> v]

Returned(v) == [what |-> "", value |-> v]

\* Variant: the same without the test for "tail_coordinates".
RECURSIVE LoadLineOfSiteTolerant(_, _, _, _)
LoadLineOfSiteTolerant(probeInfo, y_loss, ilos, nProcs) ==
    IF ilos > Len(y_loss) THEN Returned(probeInfo)
    ELSE
      LET y_los == y_loss[ilos]
          numProbes == Len(y_loss)
          p1 == [probeInfo EXCEPT !.processorId_[ilos] =
                    OwningRank(ilos - 1, ProbePerProc(nProcs, numProbes))]
          p2 == [p1 EXCEPT !.partName_[ilos] = y_los.name.value]
          p3 == [p2 EXCEPT !.numPoints_[ilos] = y_los.number_of_points.value]
          p4 == [p3 EXCEPT !.tipCoordinates_[ilos] = y_los.tip_coordinates.value]
          p5 == [p4 EXCEPT !.tailCoordinates_[ilos] = y_los.tail_coordinates.value]
      IN  IF ~y_los.name.present
          THEN Thrown("DataProbePostProcessing: lacking the name", p1)
          ELSE IF ~y_los.number_of_points.present
          THEN Thrown("DataProbePostProcessing: lacking number of points", p2)
          ELSE IF ~y_los.tip_coordinates.present
          THEN Thrown("DataProbePostProcessing: lacking tip coordinates", p3)
          ELSE LoadLineOfSiteTolerant(p5, y_loss, ilos + 1, nProcs)

\* lines 135-169, from entry ilos (1-based here) on; stops at the first throw
RECURSIVE LoadLineOfSite(_, _, _, _)
LoadLineOfSite(probeInfo, y_loss, ilos, nProcs) ==
    IF ilos > Len(y_loss) THEN Returned(probeInfo)
    ELSE
      LET y_los == y_loss[ilos]
          numProbes == Len(y_loss)
          p1 == [probeInfo EXCEPT !.processorId_[ilos] =
                    OwningRank(ilos - 1, ProbePerProc(nProcs, numProbes))]
          p2 == [p1 EXCEPT !.partName_[ilos] = y_los.name.value]
          p3 == [p2 EXCEPT !.numPoints_[ilos] = y_los.number_of_points.value]
          p4 == [p3 EXCEPT !.tipCoordinates_[ilos] = y_los.tip_coordinates.value]
          p5 == [p4 EXCEPT !.tailCoordinates_[ilos] = y_los.tail_coordinates.value]
      IN  IF ~y_los.name.present
          THEN Thrown("DataProbePostProcessing: lacking the name", p1)
          ELSE IF ~y_los.number_of_points.present
          THEN Thrown("DataProbePostProcessing: lacking number of points", p2)
          ELSE IF ~y_los.tip_coordinates.present
          THEN Thrown("DataProbePostProcessing: lacking tip coordinates", p3)
          ELSE IF ~y_los.tail_coordinates.present
          THEN Thrown("DataProbePostProcessing: lacking tail coordinates", p4)
          ELSE LoadLineOfSite(p5, y_loss, ilos + 1, nProcs)

\* lines 176-201, from output ioutput on
RECURSIVE LoadOutputs(_, _, _)
LoadOutputs(probeInfo, y_outputs, ioutput) ==
    IF ioutput > Len(y_outputs) THEN Returned(probeInfo)
    ELSE
      LET y_output == y_outputs[ioutput]
          fieldInfoPair == <<y_output.field_name.value \o "_probe", y_output.field_size.value>>
      IN  IF ~y_output.field_name.present
          THEN Thrown("DataProbePostProcessing::load() Sorry, field name must be provided",
                      probeInfo)
          ELSE IF ~y_output.field_size.present
          THEN Thrown("DataProbePostProcessing::load() Sorry, field size must be provided",
                      probeInfo)
          ELSE LoadOutputs([probeInfo EXCEPT !.fieldInfo_ = Append(@, fieldInfoPair)],
                           y_outputs, ioutput + 1)

\* lines 85-201: one specification.  The value is the DataProbeSpecInfo as it
\* stands when the body ends or throws.
LoadSpec(y_spec, nProcs) ==
    LET s0 == NewDataProbeSpecInfo
        s1 == [s0 EXCEPT !.xferName_ = y_spec.name.value]
        s2 == [s1 EXCEPT !.fromTargetNames_ = y_spec.from_target_part.names]
        y_loss == expect_sequence(y_spec.line_of_site_specifications, FALSE)
        los == LoadLineOfSite(
                   ResizeProbeInfo(s2.dataProbeInfo_[1],
                                   Len(y_spec.line_of_site_specifications.items)),
                   y_spec.line_of_site_specifications.items, 1, nProcs)
        s3 == [s2 EXCEPT !.dataProbeInfo_[1] = los.value]
        y_outputs == expect_sequence(y_spec.output_variables, FALSE)
        outs == LoadOutputs(s3.dataProbeInfo_[1], y_spec.output_variables.items, 1)
        s4 == [s3 EXCEPT !.dataProbeInfo_[1] = outs.value]
    IN  IF ~y_spec.name.present
        THEN Thrown("DataProbePostProcessing: no name provided", s0)
        ELSE IF y_loss = "throw"
        THEN Thrown("expect_sequence: line_of_site_specifications is required", s2)
        ELSE IF y_loss = "null"
        THEN Thrown("DataProbePostProcessing: only supports line_of_site_specifications", s2)
        ELSE IF los.what # ""
        THEN Thrown(los.what, s3)
        ELSE IF y_outputs = "throw"
        THEN Thrown("expect_sequence: output_variables is required", s3)
        ELSE IF y_outputs = "null"
        THEN Returned(s3)
        ELSE IF outs.what # ""
        THEN Thrown(outs.what, s4)
        ELSE Returned(s4)

\* lines 82-202: the loop over the specifications, from ispec on
RECURSIVE LoadSpecs(_, _, _, _)
LoadSpecs(registry, y_specs, ispec, nProcs) ==
    IF ispec > Len(y_specs) THEN Returned(registry)
    ELSE
      LET one == LoadSpec(y_specs[ispec], nProcs)
          pushed == Append(registry, one.value)
      IN  IF one.what # ""
          THEN Thrown(one.what, pushed)
          ELSE LoadSpecs(pushed, y_specs, ispec + 1, nProcs)

\* Variant: "specifications" read as an optional key.
SpecificationsOptional(y_dataProbe) == expect_sequence(y_dataProbe.specifications, TRUE)

\* line 78: const YAML::Node *y_specs = expect_sequence(*y_dataProbe, "specifications", false);
Specifications(y_dataProbe) == expect_sequence(y_dataProbe.specifications, FALSE)

\* load(y_node) on an object whose registry is still empty
load(doc, nProcs) ==
    LET y_dataProbe == doc.data_probes
        y_specs == Specifications(y_dataProbe)
    IN  IF ~y_dataProbe.present THEN Returned(<<>>)
        ELSE IF y_specs = "throw"
        THEN Thrown("expect_sequence: specifications is required", <<>>)
        ELSE IF y_specs = "null" THEN Returned(<<>>)
        ELSE LoadSpecs(<<>>, y_dataProbe.specifications.items, 1, nProcs)

-----------------------------------------------------------------------------
(* The objects on each rank.                                               *)

NewMetaData == [parts |-> {}, fields |-> {}]

NewBulkData == [entities |-> {}, coordinates |-> <<>>, calls |-> <<>>, idsGenerated |-> 0]

NoCall == [called |-> FALSE, sampled |-> FALSE, output |-> <<>>]

Init ==
    /\ y_node \in Documents
    /\ numProcs \in 1 .. MaxRanks
    /\ nDim \in {2, 3}
    /\ pc = [r \in Ranks |-> "start"]
    /\ outputFreq_ = [r \in Ranks |-> 0]
    /\ dataProbeSpecInfo_ = [r \in Ranks |-> <<>>]
    /\ allTheParts_ = [r \in Ranks |-> <<>>]
    /\ metaData = [r \in Ranks |-> NewMetaData]
    /\ bulkData = [r \in Ranks |-> NewBulkData]
    /\ timeStepCount = 0
    /\ lastCall = [r \in Ranks |-> NoCall]
    /\ thrown = [r \in Ranks |-> ""]

\* outputFreq_(10) in the constructor's initializer list
OutputFreq == 10

\* The constructor, lines 48-56: outputFreq_(10), then load(node).  A throw
\* of load() leaves the constructor; the registry is kept as load() left it.
Constructor(r) ==
    /\ pc[r] = "start"
    /\ LET loaded == load(y_node, numProcs)
       IN  /\ outputFreq_' = [outputFreq_ EXCEPT ![r] = OutputFreq]
           /\ dataProbeSpecInfo_' = [dataProbeSpecInfo_ EXCEPT ![r] = loaded.value]
           /\ pc' = [pc EXCEPT ![r] = IF loaded.what = "" THEN "loaded" ELSE "failed"]
           /\ thrown' = [thrown EXCEPT ![r] = loaded.what]
    /\ UNCHANGED <<y_node, numProcs, nDim, allTheParts_, metaData, bulkData,
                   timeStepCount, lastCall>>

-----------------------------------------------------------------------------
(* setup(): lines 210-261.                                                 *)

\* The probes in the order of the nested loops over idps, k and j (1-based).
RECURSIVE ProbesFrom(_, _, _, _)
ProbesFrom(registry, idps, k, j) ==
    IF idps > Len(registry) THEN <<>>
    ELSE IF k > Len(registry[idps].dataProbeInfo_)
    THEN ProbesFrom(registry, idps + 1, 1, 1)
    ELSE IF j > registry[idps].dataProbeInfo_[k].numProbes_
    THEN ProbesFrom(registry, idps, k + 1, 1)
    ELSE <<[idps |-> idps, k |-> k, j |-> j]>> \o ProbesFrom(registry, idps, k, j + 1)

ProbeOrder(registry) == ProbesFrom(registry, 1, 1, 1)

InfoAt(registry, at) == registry[at.idps].dataProbeInfo_[at.k]

\* lines 218-235: probeInfo->part_[j] = &metaData.declare_part(partName, NODE_RANK)
DeclareParts(registry) ==
    [idps \in DOMAIN registry |->
        [registry[idps] EXCEPT !.dataProbeInfo_ =
            [k \in DOMAIN registry[idps].dataProbeInfo_ |->
                LET probeInfo == registry[idps].dataProbeInfo_[k]
                IN  [probeInfo EXCEPT !.part_ =
                        [j \in DOMAIN probeInfo.part_ |->
                            IF j <= probeInfo.numProbes_ THEN probeInfo.partName_[j]
                            ELSE probeInfo.part_[j]]]]]]

\* lines 239-260: coordinates and every field of fieldInfo_ on each probe's part
RegisteredFields(registry, dim) ==
    LET order == ProbeOrder(registry)
    IN  UNION { LET probeInfo == InfoAt(registry, order[n])
                    probePart == probeInfo.part_[order[n].j]
                IN  {[name |-> "coordinates", part |-> probePart, size |-> dim]}
                    \cup {[name |-> probeInfo.fieldInfo_[f][1], part |-> probePart,
                           size |-> probeInfo.fieldInfo_[f][2]] :
                            f \in DOMAIN probeInfo.fieldInfo_}
                : n \in DOMAIN order }

\* the parts metaData.declare_part has been called for
DeclaredParts(registry) ==
    LET order == ProbeOrder(registry)
    IN  {InfoAt(registry, order[n]).part_[order[n].j] : n \in DOMAIN order}

Setup(r) ==
    /\ pc[r] = "loaded"
    /\ LET declared == DeclareParts(dataProbeSpecInfo_[r])
       IN  /\ dataProbeSpecInfo_' = [dataProbeSpecInfo_ EXCEPT ![r] = declared]
           /\ metaData' = [metaData EXCEPT ![r] =
                  [parts |-> @.parts \cup DeclaredParts(declared),
                   fields |-> @.fields \cup RegisteredFields(declared, nDim)]]
    /\ pc' = [pc EXCEPT ![r] = "setup"]
    /\ UNCHANGED <<y_node, numProcs, nDim, outputFreq_, allTheParts_, bulkData,
                   timeStepCount, lastCall, thrown>>

-----------------------------------------------------------------------------
(* initialize(): lines 266-367.                                            *)

MeshCall(name, count, id, part) == [call |-> name, count |-> count, id |-> id, part |-> part]

\* bulkData.generate_new_ids(NODE_RANK, numPoints, availableNodeIds): numPoints
\* identifiers no rank has been given before.
GenerateNewIds(bulk, rank, nProcs, numPoints) ==
    [i \in 1 .. numPoints |-> (bulk.idsGenerated + i - 1) * nProcs + rank + 1]

\* Variant: every mesh call inside the ownership test.
ProbeCallsOwnerOnly(owns, numPoints, availableNodeIds, probePart) ==
    IF owns
    THEN <<MeshCall("generate_new_ids", numPoints, 0, NullPart),
           MeshCall("modification_begin", 0, 0, NullPart)>>
         \o [i \in 1 .. numPoints |-> MeshCall("declare_entity", 0, availableNodeIds[i], probePart)]
         \o <<MeshCall("modification_end", 0, 0, NullPart)>>
    ELSE <<>>

\* Variant: the entities declared ahead of modification_begin.
ProbeCallsDeclareFirst(owns, numPoints, availableNodeIds, probePart) ==
    <<MeshCall("generate_new_ids", numPoints, 0, NullPart)>>
    \o (IF owns
        THEN [i \in 1 .. numPoints |->
                 MeshCall("declare_entity", 0, availableNodeIds[i], probePart)]
        ELSE <<>>)
    \o <<MeshCall("modification_begin", 0, 0, NullPart),
          MeshCall("modification_end", 0, 0, NullPart)>>

\* lines 294-312: the mesh calls of one probe, in order
ProbeCalls(owns, numPoints, availableNodeIds, probePart) ==
    <<MeshCall("generate_new_ids", numPoints, 0, NullPart),
      MeshCall("modification_begin", 0, 0, NullPart)>>
    \o (IF owns
        THEN [i \in 1 .. numPoints |->
                 MeshCall("declare_entity", 0, availableNodeIds[i], probePart)]
        ELSE <<>>)
    \o <<MeshCall("modification_end", 0, 0, NullPart)>>

\* lines 285-313: one pass of the loop over j, for the probe at `at`
CreateProbeNodes(state, at, rank, nProcs) ==
    LET probeInfo == InfoAt(state.registry, at)
        probePart == probeInfo.part_[at.j]
        numPoints == probeInfo.numPoints_[at.j]
        processorId == probeInfo.processorId_[at.j]
        availableNodeIds == GenerateNewIds(state.bulk, rank, nProcs, numPoints)
        owns == (processorId = rank)
    IN  [registry |->
            [state.registry EXCEPT ![at.idps].dataProbeInfo_[at.k].nodeVector_[at.j] =
                IF owns THEN availableNodeIds ELSE @],
         bulk |->
            [state.bulk EXCEPT
                !.idsGenerated = @ + numPoints,
                !.calls = @ \o ProbeCalls(owns, numPoints, availableNodeIds, probePart),
                !.entities = @ \cup
                    (IF owns
                     THEN {[id |-> availableNodeIds[i], part |-> probePart] : i \in 1 .. numPoints}
                     ELSE {})]]

\* lines 277-315: the first loop nest, from the n-th probe on
RECURSIVE CreateNodes(_, _, _, _, _)
CreateNodes(state, order, n, rank, nProcs) ==
    IF n > Len(order) THEN state
    ELSE CreateNodes(CreateProbeNodes(state, order[n], rank, nProcs), order, n + 1, rank, nProcs)

\* tipC / tailC: the first nDim components of a Coordinates (x_, y_, z_)
Components(c, dim) == [i \in 1 .. dim |-> RatOfInt(c[i])]

\* Variant: the spacing taken over numPoints intervals.
DxPerPoint(tipC, tailC, numPoints) ==
    [i \in DOMAIN tipC |-> RatDiv(RatSub(tipC[i], tailC[i]), RatOfInt(numPoints))]

\* dx[j] = (tipC[j] - tailC[j])/(double)(numPoints-1);
Dx(tipC, tailC, numPoints) ==
    [i \in DOMAIN tipC |-> RatDiv(RatSub(tipC[i], tailC[i]), RatOfInt(numPoints - 1))]

\* coords[i] = tailC[i] + j*dx[i];   (j 0-based)
NodeCoords(tailC, dx, j) ==
    [i \in DOMAIN tailC |-> RatAdd(tailC[i], RatMul(RatOfInt(j), dx[i]))]

\* lines 330-361: the coordinates of the nodes of the probe at `at`
PlaceProbeNodes(coordinates, registry, at, dim) ==
    LET probeInfo == InfoAt(registry, at)
        nodeVec == probeInfo.nodeVector_[at.j]
        tipC == Components(probeInfo.tipCoordinates_[at.j], dim)
        tailC == Components(probeInfo.tailCoordinates_[at.j], dim)
        dx == Dx(tipC, tailC, probeInfo.numPoints_[at.j])
    IN  [node \in (DOMAIN coordinates) \cup {nodeVec[j] : j \in DOMAIN nodeVec} |->
            IF \E j \in DOMAIN nodeVec : nodeVec[j] = node
            THEN NodeCoords(tailC, dx, (CHOOSE j \in DOMAIN nodeVec : nodeVec[j] = node) - 1)
            ELSE coordinates[node]]

\* lines 322-364: the second loop nest, from the n-th probe on
RECURSIVE PlaceNodes(_, _, _, _, _)
PlaceNodes(coordinates, registry, order, n, dim) ==
    IF n > Len(order) THEN coordinates
    ELSE PlaceNodes(PlaceProbeNodes(coordinates, registry, order[n], dim),
                    registry, order, n + 1, dim)

\* create_inactive_selector(), lines 387-406: allTheParts_.push_back(probeInfo->part_[j])
InactiveParts(registry) ==
    LET order == ProbeOrder(registry)
    IN  [n \in DOMAIN order |-> InfoAt(registry, order[n]).part_[order[n].j]]

Initialize(r) ==
    /\ pc[r] = "setup"
    /\ LET order == ProbeOrder(dataProbeSpecInfo_[r])
           created == CreateNodes([registry |-> dataProbeSpecInfo_[r], bulk |-> bulkData[r]],
                                  order, 1, r, numProcs)
           placed == PlaceNodes(created.bulk.coordinates, created.registry, order, 1, nDim)
       IN  /\ dataProbeSpecInfo_' = [dataProbeSpecInfo_ EXCEPT ![r] = created.registry]
           /\ bulkData' = [bulkData EXCEPT ![r] = [created.bulk EXCEPT !.coordinates = placed]]
           /\ allTheParts_' = [allTheParts_ EXCEPT ![r] = @ \o InactiveParts(created.registry)]
    /\ pc' = [pc EXCEPT ![r] = "initialized"]
    /\ UNCHANGED <<y_node, numProcs, nDim, outputFreq_, metaData,
                   timeStepCount, lastCall, thrown>>

-----------------------------------------------------------------------------
(* execute() and provide_average(): lines 421-496.                         *)

\* theF[ifs] = stk::mesh::field_data(*theField, node)[ifs]: the values resident
\* on the probe nodes are written by the rest of the simulation; they differ
\* from node to node, component to component, field to field and step to step.
FieldValue(stepCount, node, fieldName, ifs) ==
    (((node + stepCount) * (ifs + 1) + (IF fieldName = "pressure_probe" THEN 1 ELSE 0)) % 7) - 3

\* lines 482-487: meanValue[ifs] += theF[ifs] over nodeVec, from node inv on
RECURSIVE SumFrom(_, _, _, _, _)
SumFrom(nodeVec, inv, stepCount, fieldName, ifs) ==
    IF inv > Len(nodeVec) THEN 0
    ELSE FieldValue(stepCount, nodeVec[inv], fieldName, ifs)
         + SumFrom(nodeVec, inv + 1, stepCount, fieldName, ifs)

\* Variant: the sum started at the second node.
MeanValueFromSecond(nodeVec, stepCount, fieldName, ifs) == SumFrom(nodeVec, 2, stepCount, fieldName, ifs)

MeanValue(nodeVec, stepCount, fieldName, ifs) == SumFrom(nodeVec, 1, stepCount, fieldName, ifs)

\* line 490: the value printed, meanValue[ifs]/numPoints   (ifs 0-based)
Printed(probeInfo, inp, ifi, ifs, stepCount) ==
    RatDiv(RatOfInt(MeanValue(probeInfo.nodeVector_[inp], stepCount, probeInfo.fieldInfo_[ifi][1], ifs)),
           RatOfInt(probeInfo.numPoints_[inp]))

\* provide_average(), lines 450-495: what is printed, indexed as the loops are
provide_average(registry, stepCount) ==
    [idps \in DOMAIN registry |->
      [k \in DOMAIN registry[idps].dataProbeInfo_ |->
        LET probeInfo == registry[idps].dataProbeInfo_[k]
        IN  [inp \in 1 .. probeInfo.numProbes_ |->
              [ifi \in DOMAIN probeInfo.fieldInfo_ |->
                [ifs \in 1 .. probeInfo.fieldInfo_[ifi][2] |->
                    Printed(probeInfo, inp, ifi, ifs - 1, stepCount)]]]]]

\* Variant: output one step after each multiple of outputFreq_.
IsOutputAfter(stepCount, outputFreq) == (stepCount % outputFreq = 1)

\* const bool isOutput = timeStepCount % outputFreq_ == 0;
IsOutput(stepCount, outputFreq) == (stepCount % outputFreq = 0)

\* The realm calls execute() once per time step on every rank.
Execute(r) ==
    /\ pc[r] = "initialized"
    /\ ~lastCall[r].called
    /\ LET isOutput == IsOutput(timeStepCount, outputFreq_[r])
       IN  lastCall' = [lastCall EXCEPT ![r] =
               [called |-> TRUE, sampled |-> isOutput,
                output |-> IF isOutput THEN provide_average(dataProbeSpecInfo_[r], timeStepCount)
                           ELSE <<>>]]
    /\ UNCHANGED <<y_node, numProcs, nDim, pc, outputFreq_, dataProbeSpecInfo_, allTheParts_,
                   metaData, bulkData, timeStepCount, thrown>>

\* The realm advances to the next time step once every rank has run this
\* step's execute().
AdvanceStep ==
    /\ \A r \in Ranks : pc[r] = "initialized" /\ lastCall[r].called
    /\ timeStepCount < MaxSteps
    /\ timeStepCount' = timeStepCount + 1
    /\ lastCall' = [r \in Ranks |-> NoCall]
    /\ UNCHANGED <<y_node, numProcs, nDim, pc, outputFreq_, dataProbeSpecInfo_, allTheParts_,
                   metaData, bulkData, thrown>>

Next ==
    \/ \E r \in Ranks : Constructor(r)
    \/ \E r \in Ranks : Setup(r)
    \/ \E r \in Ranks : Initialize(r)
    \/ \E r \in Ranks : Execute(r)
    \/ AdvanceStep

Spec == Init /\ [][Next]_vars

-----------------------------------------------------------------------------
(* Properties.                                                             *)

Constructed(r) == pc[r] \notin {"start", "failed"}

\* The probe sets of rank r's registry that load() read completely.
LoadedInfos(r) ==
    {dataProbeSpecInfo_[r][idps].dataProbeInfo_[1] : idps \in DOMAIN dataProbeSpecInfo_[r]}

\* C1: for numProbes > 0 and numRanks > 0, the owning rank load() assigns to
\* every probe index lies in [0, numRanks).
C1_OwningRankInRange ==
    \A r \in Ranks : Constructed(r) =>
        \A info \in LoadedInfos(r) : \A j \in 1 .. info.numProbes_ :
            info.processorId_[j] >= 0 /\ info.processorId_[j] < numProcs

\* C2 as stated: when numProbes < numRanks, load() assigns every probe of the
\* set to rank 0.
C2_AllOnRankZero ==
    \A r \in Ranks : Constructed(r) =>
        \A info \in LoadedInfos(r) :
            info.numProbes_ < numProcs =>
                \A j \in 1 .. info.numProbes_ : info.processorId_[j] = 0

\* C2 amended: when numProbes < numRanks, load() assigns probe i (0-based) to
\* rank i, so the probes of the set lie on distinct ranks and only probe 0 is
\* on rank 0.
C2_OneProbePerRank ==
    \A r \in Ranks : Constructed(r) =>
        \A info \in LoadedInfos(r) :
            info.numProbes_ < numProcs =>
                \A j \in 1 .. info.numProbes_ : info.processorId_[j] = j - 1

C2_Witness ==
    \E r \in Ranks : Constructed(r) /\
        \E info \in LoadedInfos(r) :
            info.numProbes_ = 2 /\ numProcs = 3 /\ info.processorId_[2] = 1

\* The line-of-site entry of the document that the probe at `at` was read from.
LosOf(at) ==
    y_node.data_probes.specifications.items[at.idps].line_of_site_specifications.items[at.j]

AllInitialized == \A r \in Ranks : pc[r] = "initialized"

\* The probes of rank r's registry, as positions (idps, k, j).
ProbeSet(r) ==
    LET order == ProbeOrder(dataProbeSpecInfo_[r])
    IN  {order[n] : n \in DOMAIN order}

NodeVec(r, at) == InfoAt(dataProbeSpecInfo_[r], at).nodeVector_[at.j]

\* C3: after initialize() has completed on all ranks, every probe has exactly
\* one rank that holds its node handles: numPoints entries on that rank, none
\* on any other rank.
C3_ExactlyOneHolder ==
    AllInitialized =>
        \A r0 \in Ranks :
            LET order == ProbeOrder(dataProbeSpecInfo_[r0])
            IN  \A n \in DOMAIN order :
                    LET at == order[n]
                        numPoints == InfoAt(dataProbeSpecInfo_[r0], at).numPoints_[at.j]
                    IN  \E holder \in Ranks :
                            /\ Len(NodeVec(holder, at)) = numPoints
                            /\ \A other \in Ranks \ {holder} : Len(NodeVec(other, at)) = 0

IsCollective(c) == c.call \in {"generate_new_ids", "modification_begin", "modification_end"}

CollectiveCalls(r) == SelectSeq(bulkData[r].calls, IsCollective)

IsGenerate(c) == c.call = "generate_new_ids"

Owns(r, at) == InfoAt(dataProbeSpecInfo_[r], at).processorId_[at.j] = r

\* C4: during initialize() every rank issues the same sequence of collective
\* mesh calls (generate_new_ids, modification_begin, modification_end), whether
\* or not it owns any probe; a rank still calls generate_new_ids once for each
\* probe, and declares no entity for a probe it does not own.
C4_SameCollectiveCalls ==
    /\ \A r1 \in Ranks : \A r2 \in Ranks :
          (pc[r1] = "initialized" /\ pc[r2] = "initialized")
              => CollectiveCalls(r1) = CollectiveCalls(r2)
    /\ \A r \in Ranks : pc[r] = "initialized" =>
          LET order == ProbeOrder(dataProbeSpecInfo_[r])
          IN  /\ Len(SelectSeq(bulkData[r].calls, IsGenerate)) = Len(order)
              /\ \A n \in DOMAIN order :
                    ~Owns(r, order[n]) =>
                        LET part == LosOf(order[n]).name.value
                        IN  /\ \A e \in bulkData[r].entities : e.part # part
                            /\ \A c \in DOMAIN bulkData[r].calls :
                                  bulkData[r].calls[c].part # part

\* Two ranks are through initialize(); one owns a probe and the other owns none.
C4_Witness ==
    \E r1 \in Ranks : \E r2 \in Ranks :
        /\ pc[r1] = "initialized" /\ pc[r2] = "initialized"
        /\ bulkData[r1].entities # {}
        /\ bulkData[r2].entities = {}
        /\ Len(CollectiveCalls(r2)) >= 3

\* C5: a call of execute() samples (runs provide_average) if and only if the
\* step count modulo outputFrequency is zero; outputFrequency is 10 from
\* construction on, so sampling happens at steps 0, 10, 20, ... only.
C5_SamplesEveryTenthStep ==
    \A r \in Ranks :
        /\ pc[r] # "start" => outputFreq_[r] = 10
        /\ lastCall[r].called =>
              (lastCall[r].sampled <=> timeStepCount % 10 = 0)

C5_Witness ==
    \E r1 \in Ranks : \E r2 \in Ranks :
        /\ lastCall[r1].called /\ lastCall[r1].sampled /\ timeStepCount = 20
        /\ lastCall[r1].output # <<>>
        /\ ~lastCall[r2].called

OwnedNodes(r, part) == {e.id : e \in {x \in bulkData[r].entities : x.part = part}}

RECURSIVE OwnedSum(_, _, _, _)
OwnedSum(nodes, stepCount, fieldName, ifs) ==
    IF nodes = {} THEN 0
    ELSE LET node == CHOOSE x \in nodes : TRUE
         IN  FieldValue(stepCount, node, fieldName, ifs)
             + OwnedSum(nodes \ {node}, stepCount, fieldName, ifs)

\* Every value printed by rank r's last execute() satisfies Holds(value, sum of
\* the component over the probe's nodes owned by r, number of those nodes,
\* the probe's numPoints).
AllPrinted(r, Holds(_, _, _, _)) ==
    \A at \in ProbeSet(r) :
        LET info == InfoAt(dataProbeSpecInfo_[r], at)
            nodes == OwnedNodes(r, LosOf(at).name.value)
        IN  \A ifi \in DOMAIN info.fieldInfo_ : \A ifs \in 1 .. info.fieldInfo_[ifi][2] :
                Holds(lastCall[r].output[at.idps][at.k][at.j][ifi][ifs],
                      OwnedSum(nodes, timeStepCount, info.fieldInfo_[ifi][1], ifs - 1),
                      Cardinality(nodes),
                      LosOf(at).number_of_points.value)

IsSumOverOwnedCount(value, sum, owned, numPoints) ==
    owned > 0 /\ value[2] > 0 /\ value[1] * owned = value[2] * sum

IsSumOverNumPoints(value, sum, owned, numPoints) ==
    /\ value[2] > 0 /\ value[1] * numPoints = value[2] * sum
    /\ owned \in {0, numPoints}
    /\ owned = 0 => value = <<0, 1>>

\* C7 as stated: on a sampling step, for every probe and requested field, the
\* value reported for each component is the sum of that component over the
\* probe's nodes owned by the reporting rank divided by the number of those
\* owned nodes.
C7_MeanOverOwnedNodes ==
    \A r \in Ranks : (lastCall[r].called /\ lastCall[r].sampled) =>
        AllPrinted(r, IsSumOverOwnedCount)

\* C7 amended: on a sampling step, for every probe and requested field, the
\* value reported for each component is the sum of that component over the
\* probe's nodes owned by the reporting rank divided by the probe's configured
\* numPoints; the rank owns either all numPoints nodes or none, and a rank
\* that owns none reports 0.  No value from another rank enters the sum.
C7_MeanOverNumPoints ==
    \A r \in Ranks : (lastCall[r].called /\ lastCall[r].sampled) =>
        AllPrinted(r, IsSumOverNumPoints)

\* A rank has sampled a probe it owns and reported a mean that is not an
\* integer, while another rank has sampled the same probe without owning it.
C7_Witness ==
    \E r1 \in Ranks : \E r2 \in Ranks :
        /\ lastCall[r1].called /\ lastCall[r1].sampled
        /\ lastCall[r2].called /\ lastCall[r2].sampled
        /\ timeStepCount = 10
        /\ Len(dataProbeSpecInfo_[r1]) >= 1
        /\ LET at == [idps |-> 1, k |-> 1, j |-> 1]
           IN  /\ Owns(r1, at) /\ ~Owns(r2, at)
               /\ lastCall[r1].output[1][1][1][1][1][2] > 1
               /\ lastCall[r2].output[1][1][1][1][1] = <<0, 1>>

SpecificationsKey == y_node.data_probes.specifications

LosComplete(y_los) ==
    /\ y_los.name.present
    /\ y_los.number_of_points.present
    /\ y_los.tip_coordinates.present
    /\ y_los.tail_coordinates.present

\* Some line-of-site entry of the document lacks a required key.
LosEntryLacksKey ==
    /\ y_node.data_probes.present
    /\ SpecificationsKey.present
    /\ \E ispec \in DOMAIN SpecificationsKey.items :
          LET y_loss == SpecificationsKey.items[ispec].line_of_site_specifications
          IN  y_loss.present /\ \E ilos \in DOMAIN y_loss.items : ~LosComplete(y_loss.items[ilos])

\* C9: if any line-of-site entry lacks one of "name", "number_of_points",
\* "tip_coordinates" or "tail_coordinates", load() ends in a configuration
\* error, and no mesh state (regions, fields, entities) has been declared or
\* changed at that point.
C9_LosKeysRequired ==
    \A r \in Ranks :
        (pc[r] # "start" /\ LosEntryLacksKey) =>
            /\ pc[r] = "failed"
            /\ thrown[r] # ""
            /\ metaData[r] = NewMetaData
            /\ bulkData[r] = NewBulkData
            /\ allTheParts_[r] = <<>>

\* load() has thrown on an entry without "tail_coordinates", the last key it reads.
C9_Witness ==
    \E r \in Ranks :
        /\ pc[r] = "failed"
        /\ LosEntryLacksKey
        /\ thrown[r] = "DataProbePostProcessing: lacking tail coordinates"

\* The first specification (1-based) on which load() throws, 0 if there is none.
FirstMalformed ==
    LET y_specs == SpecificationsKey.items
        bad == {ispec \in DOMAIN y_specs : LoadSpec(y_specs[ispec], numProcs).what # ""}
    IN  IF bad = {} THEN 0 ELSE CHOOSE ispec \in bad : \A other \in bad : ispec <= other

\* C10: when load() fails on a malformed specification, that specification has
\* not been registered in the registry (no half-configured probe set is left
\* behind), while every specification loaded before it remains registered
\* unchanged.
C10_MalformedSpecNotRegistered ==
    \A r \in Ranks :
        (pc[r] = "failed" /\ y_node.data_probes.present /\ SpecificationsKey.present
         /\ FirstMalformed > 0) =>
            /\ Len(dataProbeSpecInfo_[r]) = FirstMalformed - 1
            /\ \A ispec \in 1 .. (FirstMalformed - 1) :
                  dataProbeSpecInfo_[r][ispec]
                      = LoadSpec(SpecificationsKey.items[ispec], numProcs).value

\* The number of calls of the given kind among the first p mesh calls.
CountCalls(calls, name, p) ==
    Cardinality({q \in 1 .. p : calls[q].call = name})

\* How many modification_begin calls are still unmatched after the first p
\* mesh calls.
OpenTransactions(calls, p) ==
    CountCalls(calls, "modification_begin", p) - CountCalls(calls, "modification_end", p)

\* The position of the modification_begin that opened the transaction the
\* p-th mesh call lies in (0 if there is none before p).
OpeningBegin(calls, p) ==
    LET begins == {q \in 1 .. (p - 1) : calls[q].call = "modification_begin"}
    IN  IF begins = {} THEN 0 ELSE CHOOSE q \in begins : \A other \in begins : other <= q

\* How many identifiers generate_new_ids has handed out in the first p mesh calls.
RECURSIVE GeneratedCount(_, _)
GeneratedCount(calls, p) ==
    IF p = 0 THEN 0
    ELSE GeneratedCount(calls, p - 1)
         + (IF calls[p].call = "generate_new_ids" THEN calls[p].count ELSE 0)

\* The identifiers rank r has been given in the first p mesh calls.
GeneratedIds(r, calls, p) ==
    LET ids == GenerateNewIds(NewBulkData, r, numProcs, GeneratedCount(calls, p))
    IN  {ids[i] : i \in DOMAIN ids}

\* C11: in initialize(), every node entity is declared by the owning rank of
\* its probe, inside an open mesh-modification transaction and in the part of
\* that probe; each modification_begin is matched by a modification_end before
\* the next begin (no nesting, none open when initialize() has returned); the
\* identifier of a declared entity was generated before the transaction that
\* declares it was opened.
C11_DeclaredInsideTransaction ==
    \A r \in Ranks :
        LET calls == bulkData[r].calls
        IN  /\ \A p \in 0 .. Len(calls) : OpenTransactions(calls, p) \in {0, 1}
            /\ OpenTransactions(calls, Len(calls)) = 0
            /\ \A p \in DOMAIN calls :
                  calls[p].call = "declare_entity" =>
                      /\ OpenTransactions(calls, p - 1) = 1
                      /\ \E at \in ProbeSet(r) :
                            /\ Owns(r, at)
                            /\ calls[p].part = LosOf(at).name.value
                      /\ calls[p].id \in GeneratedIds(r, calls, OpeningBegin(calls, p) - 1)
            /\ \A e \in bulkData[r].entities :
                  \E p \in DOMAIN calls :
                      /\ calls[p].call = "declare_entity"
                      /\ calls[p].id = e.id
                      /\ calls[p].part = e.part

\* A rank is through initialize() with two transactions or more, one of which
\* declared entities and one of which declared none.
C11_Witness ==
    \E r \in Ranks :
        LET calls == bulkData[r].calls
        IN  /\ pc[r] = "initialized"
            /\ CountCalls(calls, "modification_begin", Len(calls)) >= 2
            /\ \E p \in DOMAIN calls : calls[p].call = "declare_entity"
            /\ \E p \in DOMAIN calls :
                  /\ calls[p].call = "modification_begin"
                  /\ calls[p + 1].call = "modification_end"

=============================================================================
